---- MODULE Spec2Model ----
(***************************************************************************)
(* A model of the albert-github plugin (src/__init__.py): the credential   *)
(* in the keyring, the repository cache file, the query handler            *)
(* Plugin.handleTriggerQuery with the display items it adds, and the       *)
(* actions bound to those items (save token, build/refresh the cache,      *)
(* open a URL).                                                            *)
(*                                                                         *)
(* A Python str is a sequence of one-character strings.  A value that is   *)
(* not text (None, a fixed label of the plugin) is a one-element sequence  *)
(* holding a longer string, so it never equals a str.                      *)
(***************************************************************************)
EXTENDS Integers, Sequences, FiniteSets, TLC

VARIABLES
    keyring,        \* the stored GitHub token, or None
    file,           \* CACHE_FILE: [exists, data], data a sequence of JSON tokens
    jobs,           \* the running cache/refresh actions, one record per slot
    browser,        \* the URL handed to openUrl last, or None
    qstr,           \* query.string of the last handleTriggerQuery call
    token,          \* its local `token`
    repositories,   \* its local `repositories` (the result of the load)
    items,          \* the items it added to the query, in order
    status          \* "none" before any call, "ok" returned, "error" raised

vars == <<keyring, file, jobs, browser, qstr, token, repositories, items, status>>

-----------------------------------------------------------------------------
(* Python str operations used by the plugin                                *)

None == <<"None">>

UpperCase == <<"A","B","C","D","E","F","G","H","I","J","K","L","M",
               "N","O","P","Q","R","S","T","U","V","W","X","Y","Z">>

LowerCase == <<"a","b","c","d","e","f","g","h","i","j","k","l","m",
               "n","o","p","q","r","s","t","u","v","w","x","y","z">>

\* code points order of the characters the model uses (for sorted())
CodeOrder == <<"\t", " ", "\"", "-", "/", ":">> \o UpperCase \o <<"\\">> \o LowerCase

Code(c) == CHOOSE i \in 1..Len(CodeOrder) : CodeOrder[i] = c

IsSpace(c) == c \in {" ", "\t"}

LowerChar(c) ==
    IF \E i \in 1..Len(UpperCase) : UpperCase[i] = c
    THEN LowerCase[CHOOSE i \in 1..Len(UpperCase) : UpperCase[i] = c]
    ELSE c

\* str.lower()
Lower(s) == [i \in 1..Len(s) |-> LowerChar(s[i])]

RECURSIVE LStrip(_)
LStrip(s) == IF s # <<>> /\ IsSpace(Head(s)) THEN LStrip(Tail(s)) ELSE s

RECURSIVE RStrip(_)
RStrip(s) ==
    IF s # <<>> /\ IsSpace(s[Len(s)]) THEN RStrip(SubSeq(s, 1, Len(s) - 1)) ELSE s

\* str.strip()
Strip(s) == RStrip(LStrip(s))

\* str.startswith(p)
StartsWith(s, p) == Len(p) <= Len(s) /\ SubSeq(s, 1, Len(p)) = p

\* Python truthiness of an Optional[str]: None and "" are false
Truthy(s) == s # None /\ s # <<>>

-----------------------------------------------------------------------------
(* rapidfuzz.fuzz.token_set_ratio (processor=None, as called on line 130)  *)
(* A score is the rational 100 * num / den, kept exact.                    *)

Sc(n, d) == [num |-> n, den |-> d]

ScoreLess(a, b) == a.num * b.den < b.num * a.den

ScoreMax(a, b) == IF ScoreLess(a, b) THEN b ELSE a

\* score > n, for an integer n
ScoreGT(sc, n) == 100 * sc.num > n * sc.den

\* the whitespace-separated words of s, in order
RECURSIVE SplitFrom(_, _)
SplitFrom(s, word) ==
    IF s = <<>> THEN (IF word = <<>> THEN <<>> ELSE <<word>>)
    ELSE IF IsSpace(Head(s))
         THEN (IF word = <<>> THEN <<>> ELSE <<word>>) \o SplitFrom(Tail(s), <<>>)
         ELSE SplitFrom(Tail(s), Append(word, Head(s)))

Split(s) == SplitFrom(s, <<>>)

Range(l) == {l[i] : i \in 1..Len(l)}

TokenSet(s) == Range(Split(s))

\* a < b in Python's str order
RECURSIVE LexLess(_, _)
LexLess(a, b) ==
    IF b = <<>> THEN FALSE
    ELSE IF a = <<>> THEN TRUE
    ELSE IF Head(a) = Head(b) THEN LexLess(Tail(a), Tail(b))
    ELSE Code(Head(a)) < Code(Head(b))

\* " ".join(sorted(S))
RECURSIVE JoinSorted(_)
JoinFrom(m, rest) == IF rest = {} THEN m ELSE m \o <<" ">> \o JoinSorted(rest)

Least(S) == CHOOSE x \in S : \A y \in S \ {x} : LexLess(x, y)

JoinSorted(S) == IF S = {} THEN <<>> ELSE JoinFrom(Least(S), S \ {Least(S)})

\* the next entry of a row of the longest-common-subsequence table: c is
\* the row's character, tj the column's, diag and up the entries of the row
\* above, left the entry before this one
LcsCell(c, tj, diag, up, left) ==
    IF c = tj THEN diag + 1 ELSE IF up >= left THEN up ELSE left

\* the row for the character c, from the row `old` above it; new holds the
\* columns 0..Len(new)-1 already filled
RECURSIVE LcsRow(_, _, _, _)
LcsRow(c, t, old, new) ==
    IF Len(new) > Len(t) THEN new
    ELSE LcsRow(c, t, old,
                Append(new, LcsCell(c, t[Len(new)], old[Len(new)],
                                    old[Len(new) + 1], new[Len(new)])))

RECURSIVE LcsRows(_, _, _)
LcsRows(s, t, row) ==
    IF s = <<>> THEN row[Len(row)]
    ELSE LcsRows(Tail(s), t, LcsRow(Head(s), t, row, <<0>>))

\* length of the longest common subsequence of s and t
Lcs(s, t) == LcsRows(s, t, [j \in 1..Len(t) + 1 |-> 0])

\* Indel distance: insertions and deletions only
IndelDistance(s, t) == Len(s) + Len(t) - 2 * Lcs(s, t)

\* norm_distance: 100 - 100 * dist / lensum
NormDistance(dist, lensum) == IF lensum > 0 THEN Sc(lensum - dist, lensum) ELSE Sc(1, 1)

\* the three ratios of token_set_ratio and their maximum: dist is the Indel
\* distance of the joined differences, ab_len and ba_len their lengths,
\* sect_len the length of the joined intersection, sep the separator's
RatioOfLens(dist, ab_len, ba_len, sect_len, sep) ==
    IF sect_len = 0
    THEN NormDistance(dist, ab_len + ba_len)
    ELSE ScoreMax(ScoreMax(NormDistance(dist, 2 * (sect_len + sep) + ab_len + ba_len),
                           NormDistance(sep + ab_len, 2 * sect_len + sep + ab_len)),
                  NormDistance(sep + ba_len, 2 * sect_len + sep + ba_len))

RatioOfJoined(diff_ab_joined, diff_ba_joined, sect_len) ==
    RatioOfLens(IndelDistance(diff_ab_joined, diff_ba_joined),
                Len(diff_ab_joined), Len(diff_ba_joined),
                sect_len, IF sect_len # 0 THEN 1 ELSE 0)

RatioOfParts(intersect, diff_ab, diff_ba) ==
    IF intersect # {} /\ (diff_ab = {} \/ diff_ba = {}) THEN Sc(1, 1)
    ELSE RatioOfJoined(JoinSorted(diff_ab), JoinSorted(diff_ba), Len(JoinSorted(intersect)))

RatioOfTokens(tokens_a, tokens_b) ==
    IF tokens_a = {} \/ tokens_b = {} THEN Sc(0, 1)
    ELSE RatioOfParts(tokens_a \cap tokens_b, tokens_a \ tokens_b, tokens_b \ tokens_a)

token_set_ratio(s1, s2) ==
    IF s1 = <<>> \/ s2 = <<>> THEN Sc(0, 1)
    ELSE RatioOfTokens(TokenSet(s1), TokenSet(s2))

-----------------------------------------------------------------------------
(* Repository records and the cache file as json.dump writes it             *)

K_name == <<"name">>
K_full_name == <<"full_name">>
K_html_url == <<"html_url">>

\* the dict built on lines 55-59, its keys in insertion order
KeyOrder == <<K_name, K_full_name, K_html_url>>

Repo(n, f, u) == (K_name :> n) @@ (K_full_name :> f) @@ (K_html_url :> u)

\* A file is a sequence of JSON tokens: punctuation, or a string literal
\* holding the escaped characters between its quotes.
Punct(p) == [t |-> p, v |-> <<>>]

\* the string written as it is, quotes and backslashes not escaped
EscapeStrNone(s) == s

RECURSIVE EscapeStr(_)
EscapeStr(s) ==
    IF s = <<>> THEN <<>>
    ELSE (IF Head(s) \in {"\"", "\\"} THEN <<"\\", Head(s)>> ELSE <<Head(s)>>)
         \o EscapeStr(Tail(s))

StrTok(s) == [t |-> "str", v |-> EscapeStr(s)]

\* the text of a string literal; a backslash escapes the next character
RECURSIVE UnescapeStr(_)
UnescapeStr(e) ==
    IF e = <<>> THEN <<>>
    ELSE IF Head(e) = "\\" /\ Len(e) >= 2 THEN <<e[2]>> \o UnescapeStr(Tail(Tail(e)))
    ELSE <<Head(e)>> \o UnescapeStr(Tail(e))

RECURSIVE DumpMembers(_, _)
DumpMembers(d, keys) ==
    IF keys = <<>> THEN <<>>
    ELSE <<StrTok(Head(keys)), Punct(":"), StrTok(d[Head(keys)])>>
         \o (IF Len(keys) > 1 THEN <<Punct(",")>> ELSE <<>>)
         \o DumpMembers(d, Tail(keys))

DumpDict(d) == <<Punct("{")>> \o DumpMembers(d, KeyOrder) \o <<Punct("}")>>

RECURSIVE DumpElems(_)
DumpElems(l) ==
    IF l = <<>> THEN <<>>
    ELSE DumpDict(Head(l))
         \o (IF Len(l) > 1 THEN <<Punct(",")>> ELSE <<>>)
         \o DumpElems(Tail(l))

\* json.dump(repositories, file): the tokens written, in order
JsonDump(l) == <<Punct("[")>> \o DumpElems(l) \o <<Punct("]")>>

LoadNone == [kind |-> "none", val |-> <<>>]
LoadError == [kind |-> "error", val |-> <<>>]
LoadList(l) == [kind |-> "list", val |-> l]

EmptyDict == [k \in {} |-> <<>>]

ParseFail(i) == [ok |-> FALSE, val |-> EmptyDict, next |-> i]

\* the members of an object from the key at position i on:
\* [ok, val, next], next the position after the closing brace
RECURSIVE ParseMembers(_, _, _)
MemberEnd(toks, i, d2) ==
    IF toks[i + 3].t = "," THEN ParseMembers(toks, i + 4, d2)
    ELSE IF toks[i + 3].t = "}" THEN [ok |-> TRUE, val |-> d2, next |-> i + 4]
    ELSE ParseFail(i)

ParseMembers(toks, i, d) ==
    IF i + 3 > Len(toks) THEN ParseFail(i)
    ELSE IF toks[i].t # "str" \/ toks[i + 1].t # ":" \/ toks[i + 2].t # "str"
         THEN ParseFail(i)
    ELSE MemberEnd(toks, i, (UnescapeStr(toks[i].v) :> UnescapeStr(toks[i + 2].v)) @@ d)

ParseObject(toks, i) ==
    IF i + 1 > Len(toks) \/ toks[i].t # "{" THEN ParseFail(i)
    ELSE IF toks[i + 1].t = "}" THEN [ok |-> TRUE, val |-> EmptyDict, next |-> i + 2]
    ELSE ParseMembers(toks, i + 1, EmptyDict)

\* the elements of an array from position i on; the closing bracket must
\* be the last token of the file (json.load raises on extra data)
RECURSIVE ParseElems(_, _, _)
ElemEnd(toks, o, acc) ==
    IF ~o.ok \/ o.next > Len(toks) THEN LoadError
    ELSE IF toks[o.next].t = "," THEN ParseElems(toks, o.next + 1, Append(acc, o.val))
    ELSE IF toks[o.next].t = "]" /\ o.next = Len(toks) THEN LoadList(Append(acc, o.val))
    ELSE LoadError

ParseElems(toks, i, acc) == ElemEnd(toks, ParseObject(toks, i), acc)

\* json.load(file) of a file that holds an array of objects of strings, or
\* a damaged one: an empty, truncated or overwritten file raises; the JSON
\* text null loads as None
JsonLoad(toks) ==
    IF toks = <<Punct("null")>> THEN LoadNone
    ELSE IF Len(toks) < 2 \/ toks[1].t # "[" THEN LoadError
    ELSE IF toks[2].t = "]" THEN (IF Len(toks) = 2 THEN LoadList(<<>>) ELSE LoadError)
    ELSE ParseElems(toks, 2, <<>>)

NoFile == [exists |-> FALSE, data |-> <<>>]
FileOf(toks) == [exists |-> TRUE, data |-> toks]

\* Plugin.load_cached_repositories on the file f
load_cached_repositories(f) == IF f.exists THEN JsonLoad(f.data) ELSE LoadNone

\* Python truthiness of the loaded value: None and [] are false
TruthyRepos(r) == r.kind = "list" /\ r.val # <<>>

-----------------------------------------------------------------------------
(* Plugin.handleTriggerQuery                                                *)

md_name == <<"GitHub repositories">>
SaveSubtext == <<"Paste your GitHub token and press [enter] to save it">>
CacheSubtext == <<"Press [enter] to initialize the repository cache (may take a few seconds)">>
RefreshSubtext == <<"Press [enter] to refresh the local repository cache (may take a few seconds)">>
NoMatchText == <<"No repositories matching search string">>
HintText == <<"...">>
HintSubtext == <<"Search for a GitHub user repository name">>
NoText == <<"">>

\* the reserved keyword of line 110
RefreshKeyword == <<"r","e","f","r","e","s","h"," ","c","a","c","h","e">>

\* a StandardItem: its action's id, its text and subtext, and the value its
\* action's lambda holds (a token, a URL, or None for an item with no action)
Item(k, tx, sub, a) == [kind |-> k, text |-> tx, subtext |-> sub, arg |-> a]

\* lines 90-94: the lambda's default argument is the stripped query
SaveItem(q) == Item("save", md_name, SaveSubtext, Strip(q))

\* lines 99-103: the lambda reads the handler's local `token`
CacheItem(tok) == Item("cache", md_name, CacheSubtext, tok)

\* lines 111-115
RefreshItem(tok) == Item("refresh", md_name, RefreshSubtext, tok)

\* lines 139-143
ExactItem(repo) == Item("eopen", repo[K_name], repo[K_full_name], repo[K_html_url])

\* lines 146-150
FuzzyItem(repo) == Item("fopen", repo[K_name], repo[K_full_name], repo[K_html_url])

\* lines 155-157
NoMatchItem == Item("none", NoMatchText, NoText, None)

\* lines 160-163
HintItem == Item("hint", HintText, HintSubtext, None)

\* the keyword compared without lower-casing the query
IsRefreshCaseSensitive(query_stripped) == query_stripped = RefreshKeyword

\* line 110
IsRefresh(query_stripped) == Lower(query_stripped) = RefreshKeyword

\* the prefix test on the name as stored, not lower-cased
IsExactCaseSensitive(repo_name, search_term) == StartsWith(repo_name, search_term)

\* line 127
IsExact(repo_name, search_term) == StartsWith(Lower(repo_name), search_term)

\* line 130
Similarity(repo_name, search_term) == token_set_ratio(Lower(repo_name), search_term)

\* the threshold taken as inclusive
QualifiesFrom25(similarity_ratio) == 100 * similarity_ratio.num >= 25 * similarity_ratio.den

\* line 131
Qualifies(similarity_ratio) == ScoreGT(similarity_ratio, 25)

\* lines 127-132: one pass of the loop; fuzzy holds (repo, ratio) pairs
ClassifyOne(repo, search_term, c) ==
    IF IsExact(repo[K_name], search_term)
    THEN [exact |-> Append(c.exact, repo), fuzzy |-> c.fuzzy]
    ELSE IF Qualifies(Similarity(repo[K_name], search_term))
    THEN [exact |-> c.exact,
          fuzzy |-> Append(c.fuzzy, [repo |-> repo,
                                     ratio |-> Similarity(repo[K_name], search_term)])]
    ELSE c

\* lines 125-132: the loop over the cache
RECURSIVE Classify(_, _, _)
Classify(repos, search_term, c) ==
    IF repos = <<>> THEN c
    ELSE Classify(Tail(repos), search_term, ClassifyOne(Head(repos), search_term, c))

\* an unstable descending insertion: x goes before the elements equal to it
RECURSIVE InsertDescUnstable(_, _)
InsertDescUnstable(sorted, x) ==
    IF sorted = <<>> THEN <<x>>
    ELSE IF ~ScoreLess(x.ratio, Head(sorted).ratio) THEN <<x>> \o sorted
    ELSE <<Head(sorted)>> \o InsertDescUnstable(Tail(sorted), x)

\* where list.sort(key, reverse=True) puts x among the sorted elements before
\* it: after every element whose key is not smaller (the sort is stable)
RECURSIVE InsertDesc(_, _)
InsertDesc(sorted, x) ==
    IF sorted = <<>> THEN <<x>>
    ELSE IF ScoreLess(Head(sorted).ratio, x.ratio) THEN <<x>> \o sorted
    ELSE <<Head(sorted)>> \o InsertDesc(Tail(sorted), x)

RECURSIVE SortFrom(_, _)
SortFrom(l, sorted) ==
    IF l = <<>> THEN sorted ELSE SortFrom(Tail(l), InsertDesc(sorted, Head(l)))

\* the sort without reverse=True: ascending ratios
RECURSIVE InsertAsc(_, _)
InsertAsc(sorted, x) ==
    IF sorted = <<>> THEN <<x>>
    ELSE IF ScoreLess(x.ratio, Head(sorted).ratio) THEN <<x>> \o sorted
    ELSE <<Head(sorted)>> \o InsertAsc(Tail(sorted), x)

RECURSIVE SortAscFrom(_, _)
SortAscFrom(l, sorted) ==
    IF l = <<>> THEN sorted ELSE SortAscFrom(Tail(l), InsertAsc(sorted, Head(l)))

SortFuzzyAscending(fuzzy_matches) == SortAscFrom(fuzzy_matches, <<>>)

\* line 135
SortFuzzy(fuzzy_matches) == SortFrom(fuzzy_matches, <<>>)

\* the two loops of lines 138-150 in the other order
ResultsFuzzyFirst(exact_matches, fuzzy_matches) ==
    [i \in 1..Len(fuzzy_matches) |-> FuzzyItem(fuzzy_matches[i].repo)]
    \o [i \in 1..Len(exact_matches) |-> ExactItem(exact_matches[i])]

\* lines 137-150
Results(exact_matches, fuzzy_matches) ==
    [i \in 1..Len(exact_matches) |-> ExactItem(exact_matches[i])]
    \o [i \in 1..Len(fuzzy_matches) |-> FuzzyItem(fuzzy_matches[i].repo)]

\* lines 120-150: the result items of the search for search_term
ResultsOf(c) == Results(c.exact, SortFuzzy(c.fuzzy))

SearchResults(repos, search_term) ==
    ResultsOf(Classify(repos, search_term, [exact |-> <<>>, fuzzy |-> <<>>]))

\* the items `first` were added before the part r of the handler ran
PutBefore(first, r) == [items |-> first \o r.items, status |-> r.status]

Locals(tok, repos, r) ==
    [token |-> tok, repositories |-> repos, items |-> r.items, status |-> r.status]

\* repo["name"], repo["full_name"], repo["html_url"] raise KeyError on a
\* dict without the key
HasKeys(repo) == {K_name, K_full_name, K_html_url} \subseteq DOMAIN repo

\* lines 152-157
Emitted(results) == IF results # <<>> THEN results ELSE <<NoMatchItem>>

\* lines 120-157: the search over a non-empty cache, [items, status]
Search(repos, q) ==
    IF \E i \in 1..Len(repos) : ~HasKeys(repos[i])
    THEN [items |-> <<>>, status |-> "error"]
    ELSE [items |-> Emitted(SearchResults(repos, Lower(Strip(q)))), status |-> "ok"]

\* lines 88-94
TokenPrompt(tok, q) == IF ~Truthy(tok) THEN <<SaveItem(q)>> ELSE <<>>

\* lines 98-103
CachePrompt(repos, tok) == IF ~TruthyRepos(repos) THEN <<CacheItem(tok)>> ELSE <<>>

\* lines 110-115
RefreshPrompt(tok, q) == IF IsRefresh(Strip(q)) THEN <<RefreshItem(tok)>> ELSE <<>>

\* the handler testing query.string itself, not the stripped query
AfterLoadUnstripped(tok, repos, q) ==
    IF q # <<>>
    THEN IF ~TruthyRepos(repos)
         THEN [items |-> RefreshPrompt(tok, q), status |-> "ok"]
         ELSE PutBefore(RefreshPrompt(tok, q), Search(repos.val, q))
    ELSE [items |-> <<HintItem>>, status |-> "ok"]

\* lines 105-163, after the load returned repos: [items, status]
AfterLoad(tok, repos, q) ==
    IF Strip(q) # <<>>
    THEN IF ~TruthyRepos(repos)
         THEN [items |-> RefreshPrompt(tok, q), status |-> "ok"]
         ELSE PutBefore(RefreshPrompt(tok, q), Search(repos.val, q))
    ELSE [items |-> <<HintItem>>, status |-> "ok"]

\* lines 88-163 once the load returned repos
Loaded(q, kr, repos) ==
    IF repos.kind = "error"
    THEN [token |-> kr, repositories |-> repos,
          items |-> TokenPrompt(kr, q), status |-> "error"]
    ELSE Locals(kr, repos,
                PutBefore(TokenPrompt(kr, q) \o CachePrompt(repos, kr),
                          AfterLoad(kr, repos, q)))

\* the whole handler on query string q, with the keyring holding kr and the
\* cache file being f: its locals, the items it added and how it ended
Handle(q, kr, f) == Loaded(q, kr, load_cached_repositories(f))

\* what a call leaves behind
Returns(q, h) ==
    /\ qstr' = q
    /\ token' = h.token
    /\ repositories' = h.repositories
    /\ items' = h.items
    /\ status' = h.status

\* the handler storing the pasted text itself, with no confirmation
handleTriggerQuerySaving(q) ==
    /\ Returns(q, Handle(q, keyring, file))
    /\ keyring' = Strip(q)
    /\ UNCHANGED <<file, jobs, browser>>

handleTriggerQuery(q) ==
    /\ Returns(q, Handle(q, keyring, file))
    /\ UNCHANGED <<keyring, file, jobs, browser>>

-----------------------------------------------------------------------------
(* The inputs the model draws from                                          *)

\* alb-gh, me/alb-gh
R1 ==
    Repo(<<"a","l","b","-","g","h">>,
         <<"m","e","/","a","l","b","-","g","h">>,
         <<"u","1">>)

\* alb-py, me/alb-py
R2 ==
    Repo(<<"a","l","b","-","p","y">>,
         <<"m","e","/","a","l","b","-","p","y">>,
         <<"u","2">>)

\* alb-py, org/alb-py
R3 ==
    Repo(<<"a","l","b","-","p","y">>,
         <<"o","r","g","/","a","l","b","-","p","y">>,
         <<"u","3">>)

\* tool, me/tool
R4 ==
    Repo(<<"t","o","o","l">>,
         <<"m","e","/","t","o","o","l">>,
         <<"u","4">>)

\* Alb, me/Alb
R5 ==
    Repo(<<"A","l","b">>,
         <<"m","e","/","A","l","b">>,
         <<"u","5">>)

\* bbbabbb, me/"b\b"
R6 ==
    Repo(<<"b","b","b","a","b","b","b">>,
         <<"m","e","/","\"","b","\\","b","\"">>,
         <<"u","6">>)

\* the repositories a cache may hold
Universe == {R1, R2, R3, R4, R5, R6}

Q_empty == <<>>

Q_blank == <<" ","\t">>

Q_alb == <<"a","l","b">>

Q_ALB == <<" ","A","L","B","\t">>

Q_py == <<"p","y">>

Q_a == <<"a">>

Q_zz == <<"z","z">>

Q_refresh == <<"r","e","f","r","e","s","h"," ","c","a","c","h","e">>

Q_Refresh == <<" ","R","e","f","r","e","s","h"," ","C","A","C","H","E"," ">>

Q_tok == <<"t","1">>

\* the query strings typed in the search specification
SearchQueries ==
    {Q_empty, Q_blank, Q_alb, Q_ALB, Q_py, Q_a, Q_zz, Q_refresh, Q_Refresh, Q_tok}

\* the query strings typed in the full specification
UserQueries == {Q_empty, Q_ALB, Q_Refresh}

\* the token GitHub accepts (the text of Q_ALB, pasted as a query to save it)
GoodToken == <<"A","L","B">>

\* what the account may hold when it is fetched
RemoteLists == {<<>>, <<R5>>, <<R6, R5>>}

\* the longest cache of the search specification
MaxRepos == 2

\* the write buffer of the cache file, in tokens
BufSize == 16

RECURSIVE SeqsUpTo(_, _)
Longer(shorter, S) == shorter \cup {Append(l, x) : l \in shorter, x \in S}

SeqsUpTo(S, n) == IF n = 0 THEN {<<>>} ELSE Longer(SeqsUpTo(S, n - 1), S)

CacheLists == SeqsUpTo(Universe, MaxRepos)
-----------------------------------------------------------------------------
(* The actions bound to the items, and the cache write they start           *)

Jobs == {1, 2}

\* a slot no action is running in.  pc is where the action stands, tok the
\* token its lambda passes to get_user_repositories (None once that has
\* returned), recs the list get_user_repositories returned, pos
\* what it has written of the file; old records, while it writes, what a
\* load of the file returned just before it opened it
IdleJob == [pc |-> "idle", tok |-> None, recs |-> <<>>, pos |-> 0, old |-> LoadNone]

Free(j) == jobs[j].pc \in {"idle", "done", "failed"}

NUL == Punct("NUL")

\* a write of chunk at offset pos of the file's data: bytes past the end
\* of a file truncated meanwhile are filled with NUL
Padded(data, pos) ==
    IF pos > Len(data) THEN data \o [i \in 1..(pos - Len(data)) |-> NUL] ELSE data

Overwrite(padded, pos, chunk) ==
    SubSeq(padded, 1, pos) \o chunk
    \o (IF pos + Len(chunk) < Len(padded)
        THEN SubSeq(padded, pos + Len(chunk) + 1, Len(padded))
        ELSE <<>>)

WriteAt(data, pos, chunk) == Overwrite(Padded(data, pos), pos, chunk)

\* line 94: Action "save" of item i runs save_token(t)
ConfirmSave(i) ==
    /\ i \in 1..Len(items)
    /\ items[i].kind = "save"
    /\ keyring' = items[i].arg
    /\ UNCHANGED <<file, jobs, browser, qstr, token, repositories, items, status>>

\* lines 103 and 115: Action "cache" or "refresh" of item i starts
\* cache_repositories(get_user_repositories(token)) in slot j, the first
\* slot that is free
ConfirmCache(i, j) ==
    /\ i \in 1..Len(items)
    /\ items[i].kind \in {"cache", "refresh"}
    /\ Free(j)
    /\ \A k \in Jobs : k < j => ~Free(k)
    /\ jobs' = [jobs EXCEPT ![j] = [IdleJob EXCEPT !.pc = "fetching",
                                                   !.tok = items[i].arg]]
    /\ UNCHANGED <<keyring, file, browser, qstr, token, repositories, items, status>>

\* the lambda reading the loop variable `repo` when it runs, after the
\* loops ended: every action opens the URL of the last item built
ConfirmOpenLast(i) ==
    /\ i \in 1..Len(items)
    /\ items[i].kind \in {"eopen", "fopen"}
    /\ browser' = items[Len(items)].arg
    /\ UNCHANGED <<keyring, file, jobs, qstr, token, repositories, items, status>>

\* lines 143 and 150: Action "eopen" or "fopen" of item i runs openUrl(u)
ConfirmOpen(i) ==
    /\ i \in 1..Len(items)
    /\ items[i].kind \in {"eopen", "fopen"}
    /\ browser' = items[i].arg
    /\ UNCHANGED <<keyring, file, jobs, qstr, token, repositories, items, status>>

\* lines 48-61: get_user_repositories returns the account's repositories
get_user_repositories(j, recs) ==
    /\ jobs[j].pc = "fetching"
    /\ jobs[j].tok = GoodToken
    /\ jobs' = [jobs EXCEPT ![j].pc = "fetched", ![j].recs = recs, ![j].tok = None]
    /\ UNCHANGED <<keyring, file, browser, qstr, token, repositories, items, status>>

\* the failure swallowed: the lambda goes on with an empty list
FetchFailsCachingEmpty(j) ==
    /\ jobs[j].pc = "fetching"
    /\ jobs' = [jobs EXCEPT ![j].pc = "fetched", ![j].recs = <<>>, ![j].tok = None]
    /\ UNCHANGED <<keyring, file, browser, qstr, token, repositories, items, status>>

\* lines 48-61: get_user_repositories raises (bad credentials, network);
\* the exception leaves the lambda, cache_repositories is not called
FetchFails(j) ==
    /\ jobs[j].pc = "fetching"
    /\ jobs' = [jobs EXCEPT ![j] = [IdleJob EXCEPT !.pc = "failed"]]
    /\ UNCHANGED <<keyring, file, browser, qstr, token, repositories, items, status>>

\* line 65: open(CACHE_FILE, "w") creates or truncates the file
OpenCache(j) ==
    /\ jobs[j].pc = "fetched"
    /\ file' = FileOf(<<>>)
    /\ jobs' = [jobs EXCEPT ![j].pc = "writing", ![j].pos = 0,
                            ![j].old = load_cached_repositories(file)]
    /\ UNCHANGED <<keyring, browser, qstr, token, repositories, items, status>>

\* the job in slot j has written its data up to offset pos
Written(j, pos, done) ==
    jobs' = [jobs EXCEPT ![j].pc = IF done THEN "done" ELSE "writing", ![j].pos = pos,
                         ![j].old = IF done THEN LoadNone ELSE @]

FlushData(j, data, pos) ==
    /\ Len(data) - pos > BufSize
    /\ file' = FileOf(WriteAt(file.data, pos, SubSeq(data, pos + 1, pos + BufSize)))
    /\ Written(j, pos + BufSize, FALSE)

CloseData(j, data, pos) ==
    /\ Len(data) - pos <= BufSize
    /\ file' = FileOf(WriteAt(file.data, pos, SubSeq(data, pos + 1, Len(data))))
    /\ Written(j, Len(data), TRUE)

\* line 66: json.dump fills the buffer, which is written out when full
FlushCache(j) ==
    /\ jobs[j].pc = "writing"
    /\ FlushData(j, JsonDump(jobs[j].recs), jobs[j].pos)
    /\ UNCHANGED <<keyring, browser, qstr, token, repositories, items, status>>

\* lines 65-66: leaving the with block writes the rest and closes the file
CloseCache(j) ==
    /\ jobs[j].pc = "writing"
    /\ CloseData(j, JsonDump(jobs[j].recs), jobs[j].pos)
    /\ UNCHANGED <<keyring, browser, qstr, token, repositories, items, status>>

-----------------------------------------------------------------------------
(* Specifications                                                           *)

NoCall ==
    /\ jobs = [j \in Jobs |-> IdleJob]
    /\ browser = None
    /\ qstr = <<>>
    /\ token = None
    /\ repositories = LoadNone
    /\ items = <<>>
    /\ status = "none"

\* a fresh installation: no token, no cache
Init ==
    /\ keyring = None
    /\ file = NoFile
    /\ NoCall

Next ==
    \/ \E q \in UserQueries : handleTriggerQuery(q)
    \/ \E i \in 1..Len(items) : ConfirmSave(i)
    \/ \E i \in 1..Len(items), j \in Jobs : ConfirmCache(i, j)
    \/ \E i \in 1..Len(items) : ConfirmOpen(i)
    \/ \E j \in Jobs, recs \in RemoteLists : get_user_repositories(j, recs)
    \/ \E j \in Jobs : FetchFails(j)
    \/ \E j \in Jobs : OpenCache(j)
    \/ \E j \in Jobs : FlushCache(j)
    \/ \E j \in Jobs : CloseCache(j)

Spec == Init /\ [][Next]_vars

\* any stored token and any cache a completed write can have left, with no
\* action running: the handler as a function of the query, token and cache
SearchInit ==
    /\ keyring \in {None, <<>>, GoodToken}
    /\ file \in {NoFile} \cup {FileOf(JsonDump(l)) : l \in CacheLists}
    /\ NoCall

SearchNext == \E q \in SearchQueries : handleTriggerQuery(q)

SpecSearch == SearchInit /\ [][SearchNext]_vars

\* cache files that are no dump of a record list: cut off after the open or
\* inside the first record, or holding another JSON text
DamagedFiles ==
    {FileOf(<<>>),
     FileOf(SubSeq(JsonDump(<<R5>>), 1, 6)),
     FileOf(JsonDump(<<R5>>) \o <<NUL>>),
     FileOf(<<Punct("null")>>)}

\* the handler called with the cache file absent, whole or damaged
DamagedInit ==
    /\ keyring \in {None, <<>>, GoodToken}
    /\ file \in {NoFile, FileOf(JsonDump(<<R5>>))} \cup DamagedFiles
    /\ NoCall

SpecDamaged == DamagedInit /\ [][SearchNext]_vars

-----------------------------------------------------------------------------
(* What the claims speak of, read off the state a call left behind          *)

\* the cache the last call searched
Cache == repositories.val

\* the normalized query of the last call
Term == Lower(Strip(qstr))

\* the last call returned, its query was not blank and a cache file loaded
Ran == status = "ok" /\ Strip(qstr) # <<>> /\ repositories.kind = "list"

\* p is a prefix of s, character by character
HasPrefix(s, p) == Len(p) <= Len(s) /\ \A k \in 1..Len(p) : s[k] = p[k]

PrefixAt(i) == HasPrefix(Lower(Cache[i][K_name]), Term)

ScoreAt(i) == token_set_ratio(Lower(Cache[i][K_name]), Term)

ExactPos == {i \in 1..Len(Cache) : PrefixAt(i)}

FuzzyPos == {i \in 1..Len(Cache) : ~PrefixAt(i) /\ 100 * ScoreAt(i).num > 25 * ScoreAt(i).den}

\* the item that shows the record at cache position i in class k
ShownAs(i, k) ==
    [kind |-> k, text |-> Cache[i][K_name], subtext |-> Cache[i][K_full_name],
     arg |-> Cache[i][K_html_url]]

IsResult(it) == it.kind \in {"eopen", "fopen"}

IsFuzzy(it) == it.kind = "fopen"

ResultItems == SelectSeq(items, IsResult)

FuzzyItems == SelectSeq(items, IsFuzzy)

Count(k) == Cardinality({n \in 1..Len(items) : items[n].kind = k})

\* the ways to list the positions S, each once
Orders(S) == {p \in [1..Cardinality(S) -> S] : \A a, b \in 1..Cardinality(S) : a # b => p[a] # p[b]}

Increasing(p) == \A a, b \in 1..Len(p) : a < b => p[a] < p[b]

\* scores do not rise along p
Descending(p) == \A a, b \in 1..Len(p) : a < b => ~ScoreLess(ScoreAt(p[a]), ScoreAt(p[b]))

\* scores do not rise along p, and equal scores keep the cache order
StableDescending(p) ==
    \A a, b \in 1..Len(p) :
        a < b => \/ ScoreLess(ScoreAt(p[b]), ScoreAt(p[a]))
                 \/ (~ScoreLess(ScoreAt(p[a]), ScoreAt(p[b])) /\ p[a] < p[b])

Shown(p, k) == [n \in 1..Len(p) |-> ShownAs(p[n], k)]

-----------------------------------------------------------------------------
(* The claims                                                               *)

\* C1: after a search with a non-blank query, every cached record whose
\* lower-cased name starts with the normalized query is shown as an exact
\* item, and every exact item comes before every fuzzy item.
C1_ExactFirst ==
    Ran =>
        /\ \A i \in ExactPos : \E n \in 1..Len(items) : items[n] = ShownAs(i, "eopen")
        /\ \A n, m \in 1..Len(items) :
               items[n].kind = "eopen" /\ items[m].kind = "fopen" => n < m

\* a fuzzy match stands before a prefix match in the cache, and both are shown
C1_Witness ==
    /\ Ran
    /\ \E i \in ExactPos, j \in FuzzyPos : j < i
    /\ Count("eopen") >= 1 /\ Count("fopen") >= 1

\* C2: the result items are exactly the prefix matches in cache order,
\* followed by the other records scoring above 25 in descending score
\* order, one item per cache position and none for anything else.
C2_ResultSequence ==
    Ran =>
        \E pe \in Orders(ExactPos), pf \in Orders(FuzzyPos) :
            /\ Increasing(pe)
            /\ Descending(pf)
            /\ ResultItems = Shown(pe, "eopen") \o Shown(pf, "fopen")

\* two fuzzy matches stand in the cache in rising score order
C2_Witness ==
    /\ Ran
    /\ \E i, j \in FuzzyPos : i < j /\ ScoreLess(ScoreAt(i), ScoreAt(j))
    /\ Len(ResultItems) = Len(Cache)

\* C3: among the fuzzy items a higher score comes first, and equal scores
\* keep the order their records have in the cache.
C3_StableFuzzyOrder ==
    Ran =>
        \E pf \in Orders(FuzzyPos) :
            /\ StableDescending(pf)
            /\ FuzzyItems = Shown(pf, "fopen")

\* two different records with the same score are both fuzzy matches
C3_Witness ==
    /\ Ran
    /\ \E i, j \in FuzzyPos :
           /\ i < j
           /\ Cache[i] # Cache[j]
           /\ ~ScoreLess(ScoreAt(i), ScoreAt(j))
           /\ ~ScoreLess(ScoreAt(j), ScoreAt(i))
    /\ Len(FuzzyItems) >= 2

\* C4: a record that is no prefix match and scores 25 or less is not shown;
\* one that is no prefix match and scores 26 or more is shown.
C4_Threshold ==
    Ran =>
        \A i \in 1..Len(Cache) :
            ~PrefixAt(i) =>
                /\ 100 * ScoreAt(i).num <= 25 * ScoreAt(i).den
                       => \A n \in 1..Len(items) :
                              items[n] # ShownAs(i, "eopen") /\ items[n] # ShownAs(i, "fopen")
                /\ 100 * ScoreAt(i).num >= 26 * ScoreAt(i).den
                       => \E n \in 1..Len(items) : items[n] = ShownAs(i, "fopen")

\* one record below the threshold and one above it, neither a prefix match
C4_Witness ==
    /\ Ran
    /\ \E i, j \in 1..Len(Cache) :
           /\ ~PrefixAt(i) /\ 100 * ScoreAt(i).num <= 25 * ScoreAt(i).den
           /\ ~PrefixAt(j) /\ 100 * ScoreAt(j).num >= 26 * ScoreAt(j).den
    /\ Len(ResultItems) = 1

C6_RefreshPrompt ==
    status = "ok" => (Count("refresh") = 1 <=> Term = RefreshKeyword)
                     /\ Count("refresh") <= 1

\* the keyword in another case and padded, with no cache file
C6_Witness ==
    /\ status = "ok"
    /\ qstr = Q_Refresh
    /\ repositories.kind = "none"
    /\ Count("refresh") = 1

\* a call of the handler, with any of the queries
Called == \E q \in UserQueries : handleTriggerQuery(q)

\* C7: when slot 1 has completed a replace and no other replace ever ran
\* beside it, a call of the handler loads exactly the list that was
\* written: the same records with the same fields in the same order.
C7_RoundTrip ==
    [][Called /\ jobs[1].pc = "done" /\ jobs[2].pc = "idle"
           => repositories' = LoadList(jobs[1].recs)]_vars

\* a call has loaded the two records written, one of them with quotes and
\* a backslash in a field
C7_Witness ==
    /\ status = "ok"
    /\ jobs[1].pc = "done" /\ jobs[2].pc = "idle"
    /\ jobs[1].recs = <<R6, R5>>
    /\ repositories = LoadList(<<R6, R5>>)

\* C8 as claimed: a call of the handler while slot 1 is between opening the
\* file and closing it (and no other replace runs) loads the snapshot from
\* before the replace or the new one, and does not fail.
C8_AsClaimed ==
    [][Called /\ jobs[1].pc = "writing" /\ jobs[2].pc = "idle"
           => repositories' = jobs[1].old \/ repositories' = LoadList(jobs[1].recs)]_vars

\* C9 as claimed: the initialize item is added exactly when the cache is
\* absent; a cache that is present and empty gets no initialize item.
C9_AsClaimed ==
    status = "ok" => (Count("cache") >= 1 <=> repositories.kind = "none")

\* C10 as claimed: a non-blank query over a present cache in which nothing
\* matches adds exactly one "no results" item and no result item, and the
\* "no results" item is added only by a search.
C10_AsClaimed ==
    /\ Ran /\ ExactPos = {} /\ FuzzyPos = {}
           => Count("none") = 1 /\ ResultItems = <<>>
    /\ Count("none") >= 1 => Ran

\* C11: a populate or refresh whose fetch fails performs no replace: the
\* step in which the fetch fails leaves the cache file as it was (absent
\* or the same snapshot), an action holding a token GitHub does not accept
\* never gets a list to write, and a failed action writes nothing later.
C11_FailedFetchKeepsCache ==
    [][\A j \in Jobs :
           /\ jobs[j].pc = "fetching" /\ jobs'[j].pc = "failed" => file' = file
           /\ jobs[j].pc = "fetching" /\ jobs[j].tok # GoodToken
                  => jobs'[j].pc \in {"fetching", "failed"}
           /\ jobs[j].pc = "failed" => jobs'[j].pc \in {"failed", "fetching"}]_vars

\* slot 1 wrote a snapshot and was then used for a refresh that failed (no
\* other slot was ever used): a load still returns the snapshot
C11_Witness ==
    /\ jobs[1].pc = "failed" /\ jobs[2].pc = "idle"
    /\ load_cached_repositories(file) = LoadList(<<R6, R5>>)

\* C12: a call of the handler, with any query and in any state of the
\* token, the cache file and the running actions, leaves the keyring and
\* the cache file as they are, starts no fetch and opens no URL.
C12_EvaluationHasNoEffect ==
    [][Called => /\ keyring' = keyring
                 /\ file' = file
                 /\ jobs' = jobs
                 /\ browser' = browser]_vars

\* a call has searched the stored snapshot while a refresh was fetching:
\* the token, the snapshot and the fetch are as they were, no URL is open
C12_Witness ==
    /\ status = "ok" /\ qstr = Q_ALB
    /\ Count("eopen") = 1 /\ Count("fopen") = 1
    /\ keyring = GoodToken
    /\ load_cached_repositories(file) = LoadList(<<R6, R5>>)
    /\ jobs[1].pc = "fetching" /\ jobs[2].pc = "idle"
    /\ browser = None

\* the cache file holds what json.dump writes for some list of records
IsSnapshot(f) == f.exists /\ \E l \in CacheLists : f.data = JsonDump(l)

\* C13 as claimed: a call that finds a cache file which is no snapshot
\* fails on the load and adds no initialize item, and a call that finds no
\* cache file gets the absent signal and does not fail.
C13_AsClaimed ==
    /\ status # "none" /\ file.exists /\ ~IsSnapshot(file)
           => status = "error" /\ Count("cache") = 0
    /\ status # "none" /\ ~file.exists
           => status = "ok" /\ repositories = LoadNone

UpperChar(c) ==
    IF \E i \in 1..Len(LowerCase) : LowerCase[i] = c
    THEN UpperCase[CHOOSE i \in 1..Len(LowerCase) : LowerCase[i] = c]
    ELSE c

Upper(s) == [i \in 1..Len(s) |-> UpperChar(s[i])]

\* every letter in the other case
SwapCase(s) == [i \in 1..Len(s) |-> IF UpperChar(s[i]) = s[i] THEN LowerChar(s[i])
                                     ELSE UpperChar(s[i])]

\* queries that differ from q in letter case only
CaseVariants(q) == {Lower(q), Upper(q), SwapCase(q)}

\* the cache with every name in upper case, with its letters in the other case
UpperNames(repos) == [i \in 1..Len(repos) |-> [repos[i] EXCEPT ![K_name] = Upper(@)]]
SwapNames(repos) == [i \in 1..Len(repos) |-> [repos[i] EXCEPT ![K_name] = SwapCase(@)]]

IsSearchItem(it) == it.kind \in {"eopen", "fopen", "none"}

\* the class of each item and the record it opens, in order
Classes(its) == [n \in 1..Len(its) |-> <<its[n].kind, its[n].arg>>]

\* C14: after a search over a non-empty cache, the search for any query
\* that differs from the one typed in letter case only gives the same items
\* in the same order, and the search over the same cache with the names in
\* another letter case gives the same classes for the same records in the
\* same order.
C14_CaseInvariant ==
    Ran /\ Cache # <<>> =>
        /\ \A q2 \in CaseVariants(qstr) :
               Search(Cache, q2).items = SelectSeq(items, IsSearchItem)
        /\ Classes(Search(UpperNames(Cache), qstr).items)
               = Classes(SelectSeq(items, IsSearchItem))
        /\ Classes(Search(SwapNames(Cache), qstr).items)
               = Classes(SelectSeq(items, IsSearchItem))

\* an upper-case query found a capitalized name as a prefix match and
\* another record as a fuzzy match
C14_Witness ==
    /\ Ran /\ qstr = Q_ALB
    /\ \E i \in ExactPos : Cache[i][K_name] # Lower(Cache[i][K_name])
    /\ Count("eopen") = 1 /\ Count("fopen") = 1

\* C15 as claimed: every confirmation of an initialize or refresh item
\* starts its fetch with the token the keyring holds at that moment.
C15_AsClaimed ==
    [][\A i \in 1..Len(items), j \in Jobs :
           ConfirmCache(i, j) => jobs'[j].tok = keyring]_vars

\* C16 as claimed: slot 2 is used only for a confirmation that fires while
\* the action of slot 1 is in flight; once both have completed, a load of
\* the cache file returns the list one of the two fetched.
C16_AsClaimed ==
    jobs[1].pc = "done" /\ jobs[2].pc = "done"
        => load_cached_repositories(file)
               \in {LoadList(jobs[1].recs), LoadList(jobs[2].recs)}

\* the items from position n + 1 on are what a search that ran adds: the
\* result items of all matching positions, or the one "no results" item
SearchOutputAfter(n) ==
    /\ n < Len(items)
    /\ \A m \in (n + 1)..Len(items) : items[m].kind \in {"eopen", "fopen", "none"}
    /\ Len(ResultItems) = Cardinality(ExactPos) + Cardinality(FuzzyPos)
    /\ IF ResultItems = <<>>
       THEN SubSeq(items, n + 1, Len(items)) = <<NoMatchItem>>
       ELSE SubSeq(items, n + 1, Len(items)) = ResultItems

\* C17 as claimed: a call with the refresh keyword as query that finds a
\* cache adds the refresh item and then still searches the cache for the
\* keyword: after the refresh item come the result items, or the one "no
\* results" item.
C17_AsClaimed ==
    status = "ok" /\ Term = RefreshKeyword /\ repositories.kind = "list"
        => \E n \in 1..Len(items) : items[n].kind = "refresh" /\ SearchOutputAfter(n)

\* item n shows the name and full name of the record at cache position i
ShowsRecord(n, i) ==
    items[n].text = Cache[i][K_name] /\ items[n].subtext = Cache[i][K_full_name]

\* C18: confirming a result item opens the URL of the cached record whose
\* name and full name the item shows: there is such a record, and the URL
\* opened is the URL of every record the item shows.
C18_OpensOwnRecord ==
    [][\A n \in 1..Len(items) :
           ConfirmOpen(n) =>
               /\ \E i \in 1..Len(Cache) : ShowsRecord(n, i)
               /\ \A i \in 1..Len(Cache) :
                      ShowsRecord(n, i) => browser' = Cache[i][K_html_url]]_vars

\* two records matched, the second of the cache shown first; the first
\* item was confirmed and the URL of its record is open
C18_Witness ==
    /\ status = "ok" /\ Cache = <<R6, R5>>
    /\ Len(items) = 2
    /\ items[1] = ShownAs(2, "eopen") /\ items[2] = ShownAs(1, "fopen")
    /\ browser = R5[K_html_url]

\* C19 as claimed: confirming the save item stores the stripped query of
\* the call that added it, and a call made once a token has been saved
\* adds no save item, whatever the query the token was saved from.
C19_AsClaimed ==
    [][/\ \A i \in 1..Len(items) : ConfirmSave(i) => keyring' = Strip(qstr)
       /\ Called /\ keyring # None
              => \A n \in 1..Len(items') : items'[n].kind # "save"]_vars

====
